---- MODULE Spec2Model ----
(***************************************************************************)
(* Service-request lifecycle of src/services/serviceRequests.service.ts:   *)
(* the rows of the serviceRequests table, the status of the linked         *)
(* installation requests, the action-history log, and one action per       *)
(* exported operation of the service.  A call runs to completion and its   *)
(* result reaches the caller before the next call starts.                  *)
(***************************************************************************)
EXTENDS Integers, Sequences, FiniteSets, TLC

\* ---------------------------------------------------------------- bounds
\* Rows the serviceRequests table may hold.
MaxRequests == 1
\* Rows the table may hold when only the creating operations run.
MaxCreated == 2
\* Longest array of images a created request carries.
MaxImages == 2

\* ------------------------------------------------------- values and enums
\* null / undefined of a string-valued field or argument.
NULL == "NULL"
\* null / undefined of a numeric or array-valued field: the empty sequence;
\* a present value x is the one-element sequence <<x>>.
None == << >>
Some(x) == << x >>

CREATED == "CREATED"
ASSIGNED == "ASSIGNED"
SCHEDULED == "SCHEDULED"
IN_PROGRESS == "IN_PROGRESS"
PAYMENT_PENDING == "PAYMENT_PENDING"
COMPLETED == "COMPLETED"
CANCELLED == "CANCELLED"
ServiceRequestStatus ==
    {CREATED, ASSIGNED, SCHEDULED, IN_PROGRESS, PAYMENT_PENDING, COMPLETED, CANCELLED}

\* ServiceRequestType: the value the code compares with the literal
\* 'installation', and one other type.
INSTALLATION == "installation"
GENERAL == "general"
ServiceRequestType == {INSTALLATION, GENERAL}

ADMIN == "ADMIN"
FRANCHISE_OWNER == "FRANCHISE_OWNER"
SERVICE_AGENT == "SERVICE_AGENT"
CUSTOMER == "CUSTOMER"

\* InstallationRequestStatus: the values the service writes, and SUBMITTED for
\* the status of an installation request nothing was scheduled for yet.
SUBMITTED == "SUBMITTED"
INSTALLATION_SCHEDULED == "INSTALLATION_SCHEDULED"
INSTALLATION_IN_PROGRESS == "INSTALLATION_IN_PROGRESS"
INSTALLATION_COMPLETED == "INSTALLATION_COMPLETED"

\* Results of a call: the error kinds of utils/errors, or success.
OK == "OK"
NOT_FOUND == "NOT_FOUND"
FORBIDDEN == "FORBIDDEN"
BAD_REQUEST == "BAD_REQUEST"

\* ------------------------------------------- rows of the other tables
\* users: id -> role and city (city only where one is recorded).
UserIds == {"admin", "own1", "own2", "ag1", "ag2", "cu1", "cu2"}
userRole ==
    [u \in UserIds |->
        CASE u = "admin" -> ADMIN
          [] u \in {"own1", "own2"} -> FRANCHISE_OWNER
          [] u \in {"ag1", "ag2"} -> SERVICE_AGENT
          [] OTHER -> CUSTOMER]
userCity == [u \in UserIds |-> IF u = "cu1" THEN "city1" ELSE NULL]
\* The acting user of a call: { userId, role } of the verified token.
ActingUsers == {[userId |-> u, role |-> userRole[u]] : u \in UserIds}

\* franchises: "f1", owned by own1, in city1.
FranchiseIds == {"f1"}
franchiseOwner == [f \in FranchiseIds |-> "own1"]
franchiseCity == [f \in FranchiseIds |-> "city1"]

\* products, subscriptions, installation requests (their fixed columns).
ProductIds == {"p1"}
\* sub1 is a subscription of cu1, sub2 one of cu2; i1 was requested by cu1.
SubscriptionIds == {"sub1", "sub2"}
subscriptionRow ==
    [s \in SubscriptionIds |->
        [customerId |-> IF s = "sub1" THEN "cu1" ELSE "cu2", franchiseId |-> "f1"]]
InstallationIds == {"i1"}
installationRow ==
    [i \in InstallationIds |-> [customerId |-> "cu1", franchiseId |-> "f1", productId |-> "p1"]]

\* ------------------------------------------------------- inputs of calls
\* The evaluation time of a call (new Date()); dates are compared with it.
Now == 1
\* Bodies of createServiceRequest: a product, the two origin links, a type,
\* images, and the payment flag.  Images come only with a plain general
\* request, both links together only with one, sub2 only with both links.
CreateImages == {None, Some(<< >>), Some(<<"a.jpg", "b.jpg">>)}
CreateServiceRequestData ==
    {d \in [productId : ProductIds \cup {"pX"},
            subscriptionId : SubscriptionIds \cup {NULL},
            installationRequestId : InstallationIds \cup {NULL},
            type : ServiceRequestType,
            images : CreateImages,
            scheduledDate : {None},
            requiresPayment : BOOLEAN,
            paymentAmount : {None}] :
        LET plain == d.type = GENERAL /\ ~d.requiresPayment /\ d.productId = "p1"
        IN  /\ d.images # None =>
                plain /\ d.subscriptionId = NULL /\ d.installationRequestId = NULL
            /\ (d.subscriptionId # NULL /\ d.installationRequestId # NULL) => plain
            /\ d.subscriptionId # NULL => d.type = GENERAL
            /\ d.subscriptionId = "sub2" => d.installationRequestId # NULL
            /\ d.productId = "pX" =>
                d.subscriptionId = NULL /\ d.installationRequestId = NULL}
\* Bodies of a plain general request with images: every array of at most
\* MaxImages references, in every order.
ImageNames == {"a.jpg", "b.jpg"}
ImageLists == UNION {[1..n -> ImageNames] : n \in 0..MaxImages}
ImageBodies ==
    {[productId |-> "p1", subscriptionId |-> NULL, installationRequestId |-> NULL,
      type |-> GENERAL, images |-> Some(xs), scheduledDate |-> None,
      requiresPayment |-> FALSE, paymentAmount |-> None] : xs \in ImageLists}
\* Bodies of createInstallationServiceRequest.
CreateInstallationData ==
    [installationRequestId : InstallationIds \cup {"iX"},
     assignedToId : {NULL, "ag1", "cu1"},
     scheduledDate : {None}]
\* Evidence of updateServiceRequestStatus: every combination of the fields.
AgentInputs == {NULL, "ag1"}
DateInputs == {None, Some(Now), Some(Now + 1)}
AmountInputs == {None, Some(0), Some(500)}
UpdateImages == {None, Some(<< >>), Some(<<"img1">>)}
UpdateData ==
    [agentId : AgentInputs, scheduledDate : DateInputs,
     paymentAmount : AmountInputs, images : UpdateImages]
\* The evidence the calls of the model carry: nothing, one field alone, or
\* an amount with images.
UpdateCalls ==
    {d \in UpdateData :
        /\ d.agentId # NULL =>
              d.scheduledDate = None /\ d.paymentAmount = None /\ d.images = None
        /\ d.scheduledDate # None => d.paymentAmount = None /\ d.images = None
        /\ d.paymentAmount = Some(0) => d.images = Some(<<"img1">>)
        /\ d.paymentAmount = Some(500) => d.images # Some(<< >>)}
\* The agent of assignServiceAgent, the date of scheduleServiceRequest.
AssigneeInputs == {"ag1", "cu1"}
ScheduleDates == {Now, Now + 1}
\* The acting users of the calls of the model, per operation: the users the
\* operation tells apart.
CreateUsers == {u \in ActingUsers : u.userId \in {"cu1", "cu2", "admin"}}
CreateInstallationUsers == {u \in ActingUsers : u.userId \in {"admin", "own1", "own2"}}
UpdateUsers == {u \in ActingUsers : u.userId \in {"admin", "cu1"}}

\* ------------------------------------------------------------------ state
VARIABLES
    sr,          \* serviceRequests table: id -> row, for the ids inserted
    instStatus,  \* installationRequests.status, per installation request
    payments,    \* installation requests with a payment of status COMPLETED
    logged,      \* the entries the call appended to the action history, in order
    last,        \* the call whose result is on its way to the caller, if any
    historyTail, \* per request: the toStatus of its latest history entry
    pending      \* per caller: the updateServiceRequestStatus it is inside of

vars == <<sr, instStatus, payments, logged, last, historyTail, pending>>

\* A call: the operation, the request it is about (0: none), the status it
\* asks for, the agent it names, the status it read, and how it ended.
Call(op, id, status, agentId, fromStatus, result) ==
    [op |-> op, id |-> id, status |-> status, agentId |-> agentId,
     fromStatus |-> fromStatus, result |-> result]
NoCall == Call(NULL, 0, NULL, NULL, NULL, NULL)

\* The callers that may be inside updateServiceRequestStatus at once, and a
\* caller that is inside no call.
Callers == {"c1", "c2"}
Idle == [pc |-> "idle"]

Init ==
    /\ sr = << >>
    /\ instStatus = [i \in InstallationIds |-> SUBMITTED]
    /\ payments \in SUBSET InstallationIds
    /\ logged = << >>
    /\ last = NoCall
    /\ historyTail = << >>
    /\ pending = [c \in Callers |-> Idle]

\* ---------------------------------------------------------------- helpers
\* generateId('srq'): an id no row has.
generateId == Cardinality(DOMAIN sr) + 1

\* JSON.stringify of an array of strings, as the sequence of its tokens.
RECURSIVE JsonItems(_)
JsonItems(xs) ==
    IF Len(xs) = 0 THEN << >>
    ELSE IF Len(xs) = 1 THEN << xs[1] >>
    ELSE << xs[1], "," >> \o JsonItems(Tail(xs))
JSON_stringify(xs) == <<"[">> \o JsonItems(xs) \o <<"]">>

\* JSON.parse of a text: the items between the brackets, for a text that
\* is an array: brackets around items that alternate with separators.
IsJsonArray(text) ==
    /\ Len(text) >= 2
    /\ text[1] = "[" /\ text[Len(text)] = "]"
    /\ Len(text) > 2 =>
          /\ Len(text) % 2 = 1
          /\ \A k \in 2..(Len(text) - 1) : (k % 2 = 1) => text[k] = ","
JSON_parse(text) == [k \in 1..((Len(text) - 1) \div 2) |-> text[2 * k]]

\* parseJsonSafe(value, fallback): the parsed value, the fallback for null
\* and for a text that does not parse.
parseJsonSafe(value, fallback) ==
    IF value = None THEN fallback
    ELSE IF IsJsonArray(value[1]) THEN JSON_parse(value[1])
    ELSE fallback

\* getServiceRequestById with the images read from the column beforeImages.
getServiceRequestById_ReadsBeforeImages(id) ==
    IF id \notin DOMAIN sr THEN NULL
    ELSE [sr[id] EXCEPT
            !.images = parseJsonSafe(sr[id].beforeImages, << >>),
            !.beforeImages = parseJsonSafe(@, << >>),
            !.afterImages = parseJsonSafe(@, << >>)]

\* getServiceRequestById: null for an id of no row, else the row with its
\* three image columns parsed.
getServiceRequestById(id) ==
    IF id \notin DOMAIN sr THEN NULL
    ELSE [sr[id] EXCEPT
            !.images = parseJsonSafe(@, << >>),
            !.beforeImages = parseJsonSafe(@, << >>),
            !.afterImages = parseJsonSafe(@, << >>)]

\* data.images && data.images.length > 0
HasImages(images) == images # None /\ Len(images[1]) > 0

\* The entry with the two statuses in each other's place.
HistoryEntry_SwapsStatuses(entity, id, link, fromStatus, toStatus, performedBy) ==
    [entity |-> entity, id |-> id, link |-> link,
     fromStatus |-> toStatus, toStatus |-> fromStatus, performedBy |-> performedBy]

\* logActionHistory: the entry of one call.  id is the service request the
\* entry names (entityId, serviceRequestId, details or metadata), link the
\* subscription or installation request it is filed under, performedBy the
\* userId of the acting user.
HistoryEntry(entity, id, link, fromStatus, toStatus, performedBy) ==
    [entity |-> entity, id |-> id, link |-> link,
     fromStatus |-> fromStatus, toStatus |-> toStatus, performedBy |-> performedBy]

\* The latest service-request entry per request once the entries are appended.
TailAfter(tail, entries) ==
    LET named == {k \in DOMAIN entries : entries[k].entity = "service_request"}
        latest(id) == CHOOSE k \in named :
                          /\ entries[k].id = id
                          /\ \A j \in named : entries[j].id = id => j <= k
    IN  [id \in DOMAIN tail \cup {entries[k].id : k \in named} |->
            IF \E k \in named : entries[k].id = id
            THEN entries[latest(id)].toStatus
            ELSE tail[id]]

\* logActionHistory, once per entry: the entries are in the history.
logActionHistory(entries) ==
    /\ logged' = entries
    /\ historyTail' = TailAfter(historyTail, entries)

\* getFranchiseById(franchiseId), then franchise.ownerId === user.userId.
OwnsFranchise(user, franchiseId) ==
    /\ franchiseId \in FranchiseIds
    /\ franchiseOwner[franchiseId] = user.userId

\* db.update(table).set(values).where(id): the keys of values that are columns
\* of the row are written, every other key is dropped.
SetColumns(row, values) ==
    [c \in DOMAIN row |-> IF c \in DOMAIN values THEN values[c] ELSE row[c]]

\* A call that fails after it filed an entry of the attempt.
Reject_LogsTheAttempt(call) ==
    /\ last' = call
    /\ logged' = << HistoryEntry("service_request", call.id, NULL,
                                 call.fromStatus, call.fromStatus, NULL) >>
    /\ UNCHANGED <<sr, instStatus, payments, historyTail, pending>>

\* A call fails: nothing is written, the error goes to the caller.
Reject(call) ==
    /\ last' = call
    /\ UNCHANGED <<sr, instStatus, payments, logged, historyTail, pending>>

\* The result of the call has reached the caller: the next call may start.
respond ==
    /\ last # NoCall
    /\ last' = NoCall
    /\ logged' = << >>
    /\ UNCHANGED <<sr, instStatus, payments, historyTail, pending>>

\* ---------------------------------------------------- createServiceRequest
\* The error the lookups of the product and of the franchise raise, or OK.
createServiceRequestCheck(data, user) ==
    IF data.productId \notin ProductIds THEN NOT_FOUND
    ELSE IF data.subscriptionId # NULL THEN
        IF data.subscriptionId \notin SubscriptionIds THEN NOT_FOUND
        ELSE IF subscriptionRow[data.subscriptionId].customerId # user.userId
            THEN FORBIDDEN
        ELSE OK
    ELSE IF data.installationRequestId # NULL THEN
        IF data.installationRequestId \notin InstallationIds THEN NOT_FOUND
        ELSE IF installationRow[data.installationRequestId].customerId # user.userId
            THEN FORBIDDEN
        ELSE OK
    ELSE IF userCity[user.userId] = NULL THEN BAD_REQUEST
    ELSE IF \A f \in FranchiseIds : franchiseCity[f] # userCity[user.userId]
        THEN BAD_REQUEST
    ELSE OK

createServiceRequestFranchise(data, user) ==
    IF data.subscriptionId # NULL THEN subscriptionRow[data.subscriptionId].franchiseId
    ELSE IF data.installationRequestId # NULL
        THEN installationRow[data.installationRequestId].franchiseId
    ELSE CHOOSE f \in FranchiseIds : franchiseCity[f] = userCity[user.userId]

createServiceRequestRow(data, user) ==
    [subscriptionId |-> data.subscriptionId,
     customerId |-> user.userId,
     productId |-> data.productId,
     installationRequestId |-> data.installationRequestId,
     type |-> data.type,
     images |-> IF HasImages(data.images)
                THEN Some(JSON_stringify(data.images[1])) ELSE None,
     status |-> CREATED,
     assignedToId |-> NULL,
     franchiseId |-> createServiceRequestFranchise(data, user),
     scheduledDate |-> data.scheduledDate,
     completedDate |-> None,
     beforeImages |-> None,
     afterImages |-> None,
     requiresPayment |-> data.requiresPayment,
     paymentAmount |-> IF data.paymentAmount # None /\ data.paymentAmount[1] # 0
                       THEN data.paymentAmount ELSE None]

createServiceRequest(data, user) ==
    LET id == generateId
        result == createServiceRequestCheck(data, user)
    IN  /\ last = NoCall
        /\ IF result = OK
           THEN /\ sr' = sr @@ (id :> createServiceRequestRow(data, user))
                /\ logActionHistory(<<
                       HistoryEntry("service_request", id, NULL, NULL, CREATED,
                                    user.userId) >>)
                /\ last' = Call("createServiceRequest", id, CREATED, NULL, NULL, OK)
                /\ UNCHANGED <<instStatus, payments, pending>>
           ELSE Reject(Call("createServiceRequest", 0, CREATED, NULL, NULL, result))

\* ---------------------------------------- createInstallationServiceRequest
\* The rows findFirst may return: those of type INSTALLATION linked to the
\* installation request.
existingServiceRequests(installationRequestId) ==
    {id \in DOMAIN sr :
        /\ sr[id].installationRequestId = installationRequestId
        /\ sr[id].type = INSTALLATION}

\* The checks of the branch that inserts: the franchise owner's franchise,
\* then the agent.
createInstallationCheck(data, user) ==
    LET inst == installationRow[data.installationRequestId]
    IN  IF user.role = FRANCHISE_OWNER /\ ~OwnsFranchise(user, inst.franchiseId)
            THEN FORBIDDEN
        ELSE IF /\ data.assignedToId # NULL
                /\ \/ data.assignedToId \notin UserIds
                   \/ userRole[data.assignedToId] # SERVICE_AGENT
            THEN BAD_REQUEST
        ELSE OK

\* The row with status CREATED also when an agent is given.
createInstallationRow_AlwaysCreated(data, user) ==
    LET inst == installationRow[data.installationRequestId]
    IN  [subscriptionId |-> NULL,
         customerId |-> inst.customerId,
         productId |-> inst.productId,
         installationRequestId |-> data.installationRequestId,
         type |-> INSTALLATION,
         images |-> None,
         status |-> CREATED,
         assignedToId |-> data.assignedToId,
         franchiseId |-> inst.franchiseId,
         scheduledDate |-> data.scheduledDate,
         completedDate |-> None,
         beforeImages |-> None,
         afterImages |-> None,
         requiresPayment |-> TRUE,
         paymentAmount |-> None]

\* The row the function inserts.
createInstallationRow(data, user) ==
    LET inst == installationRow[data.installationRequestId]
    IN  [subscriptionId |-> NULL,
         customerId |-> inst.customerId,
         productId |-> inst.productId,
         installationRequestId |-> data.installationRequestId,
         type |-> INSTALLATION,
         images |-> None,
         status |-> IF data.assignedToId # NULL THEN SCHEDULED ELSE CREATED,
         assignedToId |-> data.assignedToId,
         franchiseId |-> inst.franchiseId,
         scheduledDate |-> data.scheduledDate,
         completedDate |-> None,
         beforeImages |-> None,
         afterImages |-> None,
         requiresPayment |-> TRUE,
         paymentAmount |-> None]

\* The values the branch that finds a row sets on it; an undefined
\* assignedToId is no value.
createInstallationUpdate(data) ==
    ("status" :> SCHEDULED)
        @@ (IF data.assignedToId # NULL
            THEN "assignedToId" :> data.assignedToId ELSE << >>)

\* The call takes the branch that inserts a row.
createInstallationInserts(data, user) ==
    /\ data.installationRequestId \in InstallationIds
    /\ existingServiceRequests(data.installationRequestId) = {}
    /\ createInstallationCheck(data, user) = OK

createInstallationServiceRequest(data, user) ==
    LET id == generateId
        i == data.installationRequestId
        call(on, status, from, result) ==
            Call("createInstallationServiceRequest", on, status,
                 data.assignedToId, from, result)
        entry == HistoryEntry("installation_request", id, i, instStatus[i],
                              INSTALLATION_SCHEDULED, user.userId)
    IN  /\ last = NoCall
        /\ IF i \notin InstallationIds
           THEN Reject(call(0, NULL, NULL, NOT_FOUND))
           ELSE IF existingServiceRequests(i) # {}
           THEN \E existing \in existingServiceRequests(i) :
                /\ sr' = [sr EXCEPT ![existing] =
                              SetColumns(@, createInstallationUpdate(data))]
                /\ instStatus' = [instStatus EXCEPT ![i] = INSTALLATION_SCHEDULED]
                /\ logActionHistory(<< entry >>)
                /\ last' = call(existing, SCHEDULED, sr[existing].status, OK)
                /\ UNCHANGED <<payments, pending>>
           ELSE IF createInstallationCheck(data, user) # OK
           THEN Reject(call(0, NULL, NULL, createInstallationCheck(data, user)))
           ELSE /\ sr' = sr @@ (id :> createInstallationRow(data, user))
                /\ instStatus' = [instStatus EXCEPT ![i] = INSTALLATION_SCHEDULED]
                /\ logActionHistory(<< entry >>)
                /\ last' = call(id, createInstallationRow(data, user).status, NULL, OK)
                /\ UNCHANGED <<payments, pending>>

\* ----------------------------------------------- updateServiceRequestStatus
\* The table with a request that starts work straight from CREATED.
validTransitions_SkipToInProgress ==
    [s \in ServiceRequestStatus |->
        CASE s = CREATED -> {ASSIGNED, CANCELLED, IN_PROGRESS}
          [] s = ASSIGNED -> {SCHEDULED, CANCELLED}
          [] s = SCHEDULED -> {IN_PROGRESS, CANCELLED}
          [] s = IN_PROGRESS -> {PAYMENT_PENDING, COMPLETED, CANCELLED}
          [] s = PAYMENT_PENDING -> {COMPLETED, CANCELLED}
          [] s = COMPLETED -> {}
          [] s = CANCELLED -> {ASSIGNED, SCHEDULED}]

\* The table with CANCELLED listed among the targets of CANCELLED.
validTransitions_CancelTwice ==
    [s \in ServiceRequestStatus |->
        CASE s = CREATED -> {ASSIGNED, CANCELLED}
          [] s = ASSIGNED -> {SCHEDULED, CANCELLED}
          [] s = SCHEDULED -> {IN_PROGRESS, CANCELLED}
          [] s = IN_PROGRESS -> {PAYMENT_PENDING, COMPLETED, CANCELLED}
          [] s = PAYMENT_PENDING -> {COMPLETED, CANCELLED}
          [] s = COMPLETED -> {}
          [] s = CANCELLED -> {ASSIGNED, SCHEDULED, CANCELLED}]

\* The transition table of the function.
validTransitions ==
    [s \in ServiceRequestStatus |->
        CASE s = CREATED -> {ASSIGNED, CANCELLED}
          [] s = ASSIGNED -> {SCHEDULED, CANCELLED}
          [] s = SCHEDULED -> {IN_PROGRESS, CANCELLED}
          [] s = IN_PROGRESS -> {PAYMENT_PENDING, COMPLETED, CANCELLED}
          [] s = PAYMENT_PENDING -> {COMPLETED, CANCELLED}
          [] s = COMPLETED -> {}
          [] s = CANCELLED -> {ASSIGNED, SCHEDULED}]

\* case COMPLETED without the test of requiresPayment.
completedValidation_NoPaymentGate(serviceRequest, currentStatus, data) ==
    IF ~HasImages(data.images) THEN BAD_REQUEST ELSE OK

\* case COMPLETED of the status-specific validations.
completedValidation(serviceRequest, currentStatus, data) ==
    IF ~HasImages(data.images) THEN BAD_REQUEST
    ELSE IF serviceRequest.requiresPayment /\ currentStatus = IN_PROGRESS
        THEN BAD_REQUEST
    ELSE OK

\* case PAYMENT_PENDING of the status-specific validations.
paymentPendingValidation(serviceRequest, data) ==
    IF ~serviceRequest.requiresPayment THEN BAD_REQUEST
    ELSE IF data.paymentAmount = None \/ data.paymentAmount[1] <= 0 THEN BAD_REQUEST
    ELSE IF ~HasImages(data.images) THEN BAD_REQUEST
    ELSE OK

\* The validation with a check that lets only an ADMIN cancel.
updateServiceRequestStatusCheck_AdminCancels(serviceRequest, status, user, data) ==
    LET currentStatus == serviceRequest.status
    IN  IF status \notin validTransitions[currentStatus] THEN BAD_REQUEST
        ELSE IF status = CANCELLED /\ user.role # ADMIN THEN FORBIDDEN
        ELSE CASE status = ASSIGNED ->
                    IF data.agentId = NULL THEN BAD_REQUEST ELSE OK
               [] status = SCHEDULED ->
                    IF serviceRequest.assignedToId = NULL THEN BAD_REQUEST
                    ELSE IF data.scheduledDate = None THEN BAD_REQUEST
                    ELSE OK
               [] status = IN_PROGRESS ->
                    IF serviceRequest.type = INSTALLATION /\ ~HasImages(data.images)
                    THEN BAD_REQUEST ELSE OK
               [] status = PAYMENT_PENDING ->
                    paymentPendingValidation(serviceRequest, data)
               [] status = COMPLETED ->
                    completedValidation(serviceRequest, currentStatus, data)
               [] OTHER -> OK

\* The validation of a call on the row read: the table, then the switch.
updateServiceRequestStatusCheck(serviceRequest, status, user, data) ==
    LET currentStatus == serviceRequest.status
    IN  IF status \notin validTransitions[currentStatus] THEN BAD_REQUEST
        ELSE CASE status = ASSIGNED ->
                    IF data.agentId = NULL THEN BAD_REQUEST ELSE OK
               [] status = SCHEDULED ->
                    IF serviceRequest.assignedToId = NULL THEN BAD_REQUEST
                    ELSE IF data.scheduledDate = None THEN BAD_REQUEST
                    ELSE OK
               [] status = IN_PROGRESS ->
                    IF serviceRequest.type = INSTALLATION /\ ~HasImages(data.images)
                    THEN BAD_REQUEST ELSE OK
               [] status = PAYMENT_PENDING ->
                    paymentPendingValidation(serviceRequest, data)
               [] status = COMPLETED ->
                    completedValidation(serviceRequest, currentStatus, data)
               [] OTHER -> OK

\* updateData with the images under afterImages for every status.
updateData_ImagesAlwaysAfter(status, data) ==
    ("status" :> status)
        @@ (IF data.agentId # NULL
            THEN "assignedAgentId" :> data.agentId ELSE << >>)
        @@ (IF data.scheduledDate # None
            THEN "scheduledDate" :> data.scheduledDate ELSE << >>)
        @@ (IF data.paymentAmount # None /\ data.paymentAmount[1] # 0
            THEN "paymentAmount" :> data.paymentAmount ELSE << >>)
        @@ (IF status = COMPLETED THEN "completedAt" :> Some(Now) ELSE << >>)
        @@ (IF HasImages(data.images)
            THEN "afterImages" :> Some(JSON_stringify(data.images[1]))
            ELSE << >>)

\* updateData that also marks a completed request as settled.
updateData_ClearsPaymentFlag(status, data) ==
    ("status" :> status)
        @@ (IF data.agentId # NULL
            THEN "assignedAgentId" :> data.agentId ELSE << >>)
        @@ (IF data.scheduledDate # None
            THEN "scheduledDate" :> data.scheduledDate ELSE << >>)
        @@ (IF data.paymentAmount # None /\ data.paymentAmount[1] # 0
            THEN "paymentAmount" :> data.paymentAmount ELSE << >>)
        @@ (IF status = COMPLETED
            THEN ("completedAt" :> Some(Now)) @@ ("requiresPayment" :> FALSE)
            ELSE << >>)
        @@ (IF HasImages(data.images)
            THEN (IF status = IN_PROGRESS THEN "beforeImages" ELSE "afterImages")
                    :> Some(JSON_stringify(data.images[1]))
            ELSE << >>)

\* updateData: the keys the function sets, with their values.
updateData(status, data) ==
    ("status" :> status)
        @@ (IF data.agentId # NULL
            THEN "assignedAgentId" :> data.agentId ELSE << >>)
        @@ (IF data.scheduledDate # None
            THEN "scheduledDate" :> data.scheduledDate ELSE << >>)
        @@ (IF data.paymentAmount # None /\ data.paymentAmount[1] # 0
            THEN "paymentAmount" :> data.paymentAmount ELSE << >>)
        @@ (IF status = COMPLETED THEN "completedAt" :> Some(Now) ELSE << >>)
        @@ (IF HasImages(data.images)
            THEN (IF status = IN_PROGRESS THEN "beforeImages" ELSE "afterImages")
                    :> Some(JSON_stringify(data.images[1]))
            ELSE << >>)

\* The entries a call appends after its update: one of the request, and one
\* filed under the subscription of the row read, if it has one.
updateEntries(id, serviceRequest, status, user) ==
    LET entry == HistoryEntry("service_request", id, NULL,
                              serviceRequest.status, status, user.userId)
        subscriptionEntry ==
            HistoryEntry("subscription", id, serviceRequest.subscriptionId,
                         NULL, status, user.userId)
    IN  IF serviceRequest.subscriptionId # NULL
        THEN << entry, subscriptionEntry >>
        ELSE << entry >>

updateServiceRequestStatus(id, status, user, data) ==
    LET call(from, result) ==
            Call("updateServiceRequestStatus", id, status, data.agentId, from, result)
    IN  /\ last = NoCall
        /\ IF id \notin DOMAIN sr
           THEN Reject(call(NULL, NOT_FOUND))
           ELSE LET serviceRequest == sr[id]
                    currentStatus == serviceRequest.status
                    result == updateServiceRequestStatusCheck(
                                  serviceRequest, status, user, data)
                IN  IF result # OK
                    THEN Reject(call(currentStatus, result))
                    ELSE /\ sr' = [sr EXCEPT ![id] =
                                      SetColumns(@, updateData(status, data))]
                         /\ logActionHistory(
                                updateEntries(id, serviceRequest, status, user))
                         /\ last' = call(currentStatus, OK)
                         /\ UNCHANGED <<instStatus, payments, pending>>

\* ------------------------- updateServiceRequestStatus, statement by statement
\* A caller inside the function: the statement it is at, its arguments, the
\* row it read, whether its update ran, and how the call ended.
InCall(pc, id, status, user, data, serviceRequest, wrote, result) ==
    [pc |-> pc, id |-> id, status |-> status, user |-> user, data |-> data,
     serviceRequest |-> serviceRequest, wrote |-> wrote, result |-> result]
\* The error of a store whose write fails.
STORE_ERROR == "STORE_ERROR"

\* getServiceRequestById and the validations: the call holds the row it read,
\* or has thrown.
updateRead(c, id, status, user, data) ==
    LET serviceRequest == sr[id]
        result == updateServiceRequestStatusCheck(serviceRequest, status, user, data)
    IN  /\ last = NoCall
        /\ pending[c] = Idle
        /\ id \in DOMAIN sr
        /\ pending' = [pending EXCEPT ![c] =
                IF result = OK
                THEN InCall("update", id, status, user, data, serviceRequest,
                            FALSE, NULL)
                ELSE InCall("threw", id, status, user, data, serviceRequest,
                            FALSE, result)]
        /\ UNCHANGED <<sr, instStatus, payments, logged, last, historyTail>>

\* db.update(serviceRequests).set(updateData).where(id).
updateWrite(c) ==
    LET call == pending[c]
    IN  /\ call.pc = "update"
        /\ sr' = [sr EXCEPT ![call.id] =
                      SetColumns(@, updateData(call.status, call.data))]
        /\ pending' = [pending EXCEPT ![c].pc = "log", ![c].wrote = TRUE]
        /\ UNCHANGED <<instStatus, payments, logged, last, historyTail>>

\* The calls of logActionHistory, then the return.
updateLog(c) ==
    LET call == pending[c]
    IN  /\ call.pc = "log"
        /\ logActionHistory(
                updateEntries(call.id, call.serviceRequest, call.status, call.user))
        /\ pending' = [pending EXCEPT ![c].pc = "returned", ![c].result = OK]
        /\ UNCHANGED <<sr, instStatus, payments, last>>

\* logActionHistory fails and the function restores the row it read.
updateLogFails_RollsBack(c) ==
    LET call == pending[c]
    IN  /\ call.pc = "log"
        /\ sr' = [sr EXCEPT ![call.id] = call.serviceRequest]
        /\ pending' = [pending EXCEPT ![c].pc = "threw", ![c].result = STORE_ERROR]
        /\ UNCHANGED <<instStatus, payments, logged, last, historyTail>>

\* logActionHistory fails: its error leaves the function, which has no
\* handler around the call.
updateLogFails(c) ==
    LET call == pending[c]
    IN  /\ call.pc = "log"
        /\ pending' = [pending EXCEPT ![c].pc = "threw", ![c].result = STORE_ERROR]
        /\ UNCHANGED <<sr, instStatus, payments, logged, last, historyTail>>

\* The result or the error has reached the caller.
updateReturn(c) ==
    /\ pending[c].pc \in {"returned", "threw"}
    /\ pending' = [pending EXCEPT ![c] = Idle]
    /\ UNCHANGED <<sr, instStatus, payments, logged, last, historyTail>>

\* ------------------------------------------------------- assignServiceAgent
\* The checks without the franchise owner's own franchise.
assignServiceAgentCheck_AnyOwner(row, assignedToId, user) ==
    IF user.role \notin {ADMIN, FRANCHISE_OWNER} THEN FORBIDDEN
    ELSE IF assignedToId \notin UserIds \/ userRole[assignedToId] # SERVICE_AGENT
        THEN BAD_REQUEST
    ELSE OK

\* The permission checks, then the check of the agent.
assignServiceAgentCheck(row, assignedToId, user) ==
    IF user.role \notin {ADMIN, FRANCHISE_OWNER} THEN FORBIDDEN
    ELSE IF user.role = FRANCHISE_OWNER /\ ~OwnsFranchise(user, row.franchiseId)
        THEN FORBIDDEN
    ELSE IF assignedToId \notin UserIds \/ userRole[assignedToId] # SERVICE_AGENT
        THEN BAD_REQUEST
    ELSE OK

assignServiceAgent(id, assignedToId, user) ==
    LET call(from, result) ==
            Call("assignServiceAgent", id, ASSIGNED, assignedToId, from, result)
    IN  /\ last = NoCall
        /\ IF id \notin DOMAIN sr
           THEN Reject(call(NULL, NOT_FOUND))
           ELSE LET result == assignServiceAgentCheck(sr[id], assignedToId, user)
                    oldStatus == sr[id].status
                IN  IF result # OK
                    THEN Reject(call(oldStatus, result))
                    ELSE /\ sr' = [sr EXCEPT ![id] = SetColumns(@,
                                ("assignedToId" :> assignedToId)
                                    @@ ("status" :> ASSIGNED))]
                         /\ logActionHistory(<<
                                HistoryEntry("service_request", id, NULL,
                                             oldStatus, ASSIGNED, user.userId) >>)
                         /\ last' = call(oldStatus, OK)
                         /\ UNCHANGED <<instStatus, payments, pending>>

\* --------------------------------------------------- scheduleServiceRequest
\* The checks with every service agent permitted, assigned or not.
scheduleServiceRequestCheck_AnyAgent(row, scheduledDate, user) ==
    LET hasPermission ==
            \/ user.role = ADMIN
            \/ user.role = SERVICE_AGENT
            \/ user.role = FRANCHISE_OWNER /\ OwnsFranchise(user, row.franchiseId)
    IN  IF ~hasPermission THEN FORBIDDEN
        ELSE IF scheduledDate <= Now THEN BAD_REQUEST
        ELSE OK

\* hasPermission, then the date against the current time.
scheduleServiceRequestCheck(row, scheduledDate, user) ==
    LET hasPermission ==
            \/ user.role = ADMIN
            \/ user.role = SERVICE_AGENT /\ row.assignedToId = user.userId
            \/ user.role = FRANCHISE_OWNER /\ OwnsFranchise(user, row.franchiseId)
    IN  IF ~hasPermission THEN FORBIDDEN
        ELSE IF scheduledDate <= Now THEN BAD_REQUEST
        ELSE OK

scheduleServiceRequest(id, scheduledDate, user) ==
    LET call(from, result) ==
            Call("scheduleServiceRequest", id, SCHEDULED, NULL, from, result)
    IN  /\ last = NoCall
        /\ IF id \notin DOMAIN sr
           THEN Reject(call(NULL, NOT_FOUND))
           ELSE LET result == scheduleServiceRequestCheck(sr[id], scheduledDate, user)
                    oldStatus == sr[id].status
                IN  IF result # OK
                    THEN Reject(call(oldStatus, result))
                    ELSE /\ sr' = [sr EXCEPT ![id] = SetColumns(@,
                                ("scheduledDate" :> Some(scheduledDate))
                                    @@ ("status" :> SCHEDULED))]
                         /\ logActionHistory(<<
                                HistoryEntry("service_request", id, NULL,
                                             oldStatus, SCHEDULED, user.userId) >>)
                         /\ last' = call(oldStatus, OK)
                         /\ UNCHANGED <<instStatus, payments, pending>>

\* --------------------------------------------- syncInstallationRequestStatus
\* The switch of syncInstallationRequestStatus: the installation status a
\* service-request status maps to, NULL where no case matches.  No exported
\* operation of the service calls the function.
syncInstallationStatus(serviceRequestStatus) ==
    CASE serviceRequestStatus = IN_PROGRESS -> INSTALLATION_IN_PROGRESS
      [] serviceRequestStatus = PAYMENT_PENDING -> PAYMENT_PENDING
      [] serviceRequestStatus = COMPLETED -> INSTALLATION_COMPLETED
      [] serviceRequestStatus = CANCELLED -> CANCELLED
      [] OTHER -> NULL

\* syncInstallationRequestStatus: the update of the installation request with
\* the value of the switch, then the history entry.  Where no case matches the
\* value is null: the store writes it, or refuses it when the column takes no
\* null, and the error leaves the function before the entry.
syncInstallationRequestStatus(installationRequestId, serviceRequestStatus, user, serviceRequestId) ==
    LET installationStatus == syncInstallationStatus(serviceRequestStatus)
        call(result) == Call("syncInstallationRequestStatus", serviceRequestId,
                             serviceRequestStatus, NULL, NULL, result)
        entry == HistoryEntry("installation_request", serviceRequestId,
                              installationRequestId, serviceRequestStatus,
                              ASSIGNED, user.userId)
    IN  /\ last = NoCall
        /\ \/ /\ instStatus' = [instStatus EXCEPT
                                    ![installationRequestId] = installationStatus]
              /\ logActionHistory(<< entry >>)
              /\ last' = call(OK)
              /\ UNCHANGED <<sr, payments, pending>>
           \/ /\ installationStatus = NULL
              /\ Reject(call(STORE_ERROR))

\* ------------------------------------------------------------ specification
\* The ids a call may name: the rows of the table.  MissingId is an id of no row.
MissingId == 0
NoEvidence == [agentId |-> NULL, scheduledDate |-> None,
               paymentAmount |-> None, images |-> None]
\* The table has room for one more row.
HasRoom == Cardinality(DOMAIN sr) < MaxRequests

Next ==
    \/ \E user \in CreateUsers, data \in CreateServiceRequestData :
            /\ HasRoom \/ createServiceRequestCheck(data, user) # OK
            /\ createServiceRequest(data, user)
    \/ \E user \in CreateInstallationUsers, data \in CreateInstallationData :
            /\ HasRoom \/ ~createInstallationInserts(data, user)
            /\ createInstallationServiceRequest(data, user)
    \/ \E id \in DOMAIN sr, status \in ServiceRequestStatus,
          user \in UpdateUsers, data \in UpdateCalls :
            updateServiceRequestStatus(id, status, user, data)
    \/ \E status \in ServiceRequestStatus, user \in UpdateUsers :
            updateServiceRequestStatus(MissingId, status, user, NoEvidence)
    \/ \E id \in DOMAIN sr \cup {MissingId}, assignedToId \in AssigneeInputs,
          user \in ActingUsers :
            assignServiceAgent(id, assignedToId, user)
    \/ \E id \in DOMAIN sr \cup {MissingId}, scheduledDate \in ScheduleDates,
          user \in ActingUsers :
            scheduleServiceRequest(id, scheduledDate, user)
    \/ respond

Spec == Init /\ [][Next]_vars

\* The creating operations alone, one call after the other, on a table with
\* room for MaxCreated rows.
CanCreate == Cardinality(DOMAIN sr) < MaxCreated

NextCreate ==
    \/ \E user \in CreateUsers, data \in CreateServiceRequestData \cup ImageBodies :
            /\ CanCreate \/ createServiceRequestCheck(data, user) # OK
            /\ createServiceRequest(data, user)
    \/ \E user \in CreateInstallationUsers, data \in CreateInstallationData :
            /\ CanCreate \/ ~createInstallationInserts(data, user)
            /\ createInstallationServiceRequest(data, user)
    \/ respond

SpecCreate == Init /\ [][NextCreate]_vars

\* Two callers of updateServiceRequestStatus whose statements interleave, on
\* a request one of the creating operations stored.  The calls carry all the
\* evidence at once.
FullEvidence == [agentId |-> "ag1", scheduledDate |-> Some(Now + 1),
                 paymentAmount |-> Some(500), images |-> Some(<<"img1">>)]
RaceUsers == {u \in ActingUsers : u.userId = "admin"}
RaceBodies ==
    {d \in CreateServiceRequestData :
        d.productId = "p1" /\ d.images = None /\ d.installationRequestId = NULL}

NextRace ==
    \/ \E user \in CreateUsers, data \in RaceBodies :
            /\ HasRoom
            /\ createServiceRequest(data, user)
    \/ \E user \in CreateInstallationUsers, data \in CreateInstallationData :
            /\ HasRoom
            /\ createInstallationServiceRequest(data, user)
    \/ respond
    \/ \E c \in Callers, id \in DOMAIN sr, status \in ServiceRequestStatus,
          user \in RaceUsers :
            updateRead(c, id, status, user, FullEvidence)
    \/ \E c \in Callers : updateWrite(c)
    \/ \E c \in Callers : updateLog(c)
    \/ \E c \in Callers : updateLogFails(c)
    \/ \E c \in Callers : updateReturn(c)

SpecRace == Init /\ [][NextRace]_vars

\* syncInstallationRequestStatus on its own, called with every status for a
\* request the creating operations stored or for none.
NextSync ==
    \/ \E user \in CreateUsers, data \in RaceBodies :
            /\ HasRoom
            /\ createServiceRequest(data, user)
    \/ \E user \in CreateInstallationUsers, data \in CreateInstallationData :
            /\ HasRoom
            /\ createInstallationServiceRequest(data, user)
    \/ \E i \in InstallationIds, status \in ServiceRequestStatus,
          user \in ActingUsers, id \in DOMAIN sr \cup {MissingId} :
            syncInstallationRequestStatus(i, status, user, id)
    \/ respond

SpecSync == Init /\ [][NextSync]_vars

\* The three operations on an existing request, one call after the other, on
\* a table of up to MaxCreated requests stored by the creating operations: a
\* customer's, and the administrator's for an installation request.
FrameCreators == {u \in CreateUsers : u.userId = "cu1"}
FrameInstallations ==
    {d \in CreateInstallationData :
        d.installationRequestId = "i1" /\ d.assignedToId = "ag1"}

NextFrame ==
    \/ \E user \in FrameCreators, data \in RaceBodies :
            /\ CanCreate
            /\ createServiceRequest(data, user)
    \/ \E user \in RaceUsers, data \in FrameInstallations :
            /\ CanCreate \/ ~createInstallationInserts(data, user)
            /\ createInstallationServiceRequest(data, user)
    \/ \E id \in DOMAIN sr, status \in ServiceRequestStatus, user \in RaceUsers :
            updateServiceRequestStatus(id, status, user, FullEvidence)
    \/ \E id \in DOMAIN sr, user \in RaceUsers :
            assignServiceAgent(id, "ag1", user)
    \/ \E id \in DOMAIN sr, user \in RaceUsers :
            scheduleServiceRequest(id, Now + 1, user)
    \/ respond

SpecFrame == Init /\ [][NextFrame]_vars

\* ------------------------------------------------------------------ claims
\* The transition table as the specification prints it.
TransitionTable ==
    [s \in ServiceRequestStatus |->
        CASE s = CREATED -> {ASSIGNED, CANCELLED}
          [] s = ASSIGNED -> {SCHEDULED, CANCELLED}
          [] s = SCHEDULED -> {IN_PROGRESS, CANCELLED}
          [] s = IN_PROGRESS -> {PAYMENT_PENDING, COMPLETED, CANCELLED}
          [] s = PAYMENT_PENDING -> {COMPLETED, CANCELLED}
          [] s = COMPLETED -> {}
          [] s = CANCELLED -> {ASSIGNED, SCHEDULED}]

\* The last call is an updateServiceRequestStatus on a row of the table.
UpdateCalled ==
    /\ last.op = "updateServiceRequestStatus"
    /\ last.id \in DOMAIN sr

\* C1: updateServiceRequestStatus rejects with BAD_REQUEST every pair
\* (current, target) that is not an edge of the transition table, whatever the
\* acting user and the evidence: for the call made, and, between calls, for
\* every user and every combination of agentId, scheduledDate, paymentAmount
\* and images on every row of the table.
C1_NonEdgeRejected ==
    /\ (UpdateCalled /\ last.status \notin TransitionTable[last.fromStatus])
            => last.result = BAD_REQUEST
    /\ last = NoCall =>
        \A id \in DOMAIN sr, status \in ServiceRequestStatus :
            status \notin TransitionTable[sr[id].status] =>
                \A user \in ActingUsers, data \in UpdateData :
                    updateServiceRequestStatusCheck(sr[id], status, user, data)
                        = BAD_REQUEST

\* A COMPLETED request was asked to go back to ASSIGNED, with an agent, and
\* the call was rejected.
C1_Witness ==
    /\ UpdateCalled
    /\ last.fromStatus = COMPLETED
    /\ last.status = ASSIGNED
    /\ last.agentId = "ag1"
    /\ last.result = BAD_REQUEST

\* C2: every change of a request's persisted status, by whichever operation,
\* is an edge of the transition table.
C2_OnlyTableEdges ==
    [][\A id \in DOMAIN sr :
          sr'[id].status # sr[id].status =>
              sr'[id].status \in TransitionTable[sr[id].status]]_vars

\* C3: COMPLETED is terminal: a request whose status is COMPLETED keeps it in
\* every later state.
C3_CompletedIsTerminal ==
    [][\A id \in DOMAIN sr :
          sr[id].status = COMPLETED => sr'[id].status = COMPLETED]_vars

C5_InstallationNeverSkipsPayment ==
    (/\ UpdateCalled
     /\ sr[last.id].type = INSTALLATION
     /\ last.fromStatus = IN_PROGRESS
     /\ last.status = COMPLETED) => last.result = BAD_REQUEST

\* C6: for a request of type INSTALLATION in PAYMENT_PENDING the call to
\* COMPLETED is accepted only when a payment of status COMPLETED is linked to
\* its installation request.
C6_InstallationNeedsPayment ==
    (/\ UpdateCalled
     /\ sr[last.id].type = INSTALLATION
     /\ last.fromStatus = PAYMENT_PENDING
     /\ last.status = COMPLETED
     /\ last.result = OK) => sr[last.id].installationRequestId \in payments

\* C7: for every status X, updateServiceRequestStatus with target X on a
\* request whose status is X fails: for the call made, and, between calls, for
\* every user and all evidence on every row.
C7_NoSelfLoop ==
    /\ (UpdateCalled /\ last.status = last.fromStatus) => last.result = BAD_REQUEST
    /\ last = NoCall =>
        \A id \in DOMAIN sr, user \in ActingUsers, data \in UpdateData :
            updateServiceRequestStatusCheck(sr[id], sr[id].status, user, data) # OK

\* A CANCELLED request was asked to become CANCELLED again, and the call failed.
C7_Witness ==
    /\ UpdateCalled
    /\ last.fromStatus = CANCELLED
    /\ last.status = CANCELLED
    /\ sr[last.id].status = CANCELLED
    /\ last.result = BAD_REQUEST

\* C8: after a successful updateServiceRequestStatus to IN_PROGRESS,
\* PAYMENT_PENDING, COMPLETED or CANCELLED on a request that carries an
\* installationRequestId, the status of that installation request is the value
\* the status maps to.
C8_LinkedStatusCoherent ==
    (/\ UpdateCalled
     /\ last.result = OK
     /\ last.status \in {IN_PROGRESS, PAYMENT_PENDING, COMPLETED, CANCELLED}
     /\ sr[last.id].installationRequestId # NULL)
        => instStatus[sr[last.id].installationRequestId] =
               (CASE last.status = IN_PROGRESS -> "INSTALLATION_IN_PROGRESS"
                  [] last.status = PAYMENT_PENDING -> "PAYMENT_PENDING"
                  [] last.status = COMPLETED -> "INSTALLATION_COMPLETED"
                  [] last.status = CANCELLED -> "CANCELLED")

\* C9: a request whose status is SCHEDULED has a non-null assignedToId.
C9_ScheduledHasAgent ==
    \A id \in DOMAIN sr : sr[id].status = SCHEDULED => sr[id].assignedToId # NULL

\* C10: after a successful updateServiceRequestStatus to ASSIGNED with agentId
\* = a, the persisted assignedToId is a, and exactly one history entry of the
\* request, from the prior status to ASSIGNED, was appended.
C10_AssignmentPersisted ==
    (/\ UpdateCalled
     /\ last.result = OK
     /\ last.status = ASSIGNED)
        => /\ sr[last.id].assignedToId = last.agentId
           /\ \E k \in DOMAIN logged :
                /\ logged[k].fromStatus = last.fromStatus
                /\ logged[k].toStatus = ASSIGNED
                /\ \A j \in DOMAIN logged :
                      (logged[j].entity = "service_request" /\ logged[j].id = last.id)
                          <=> j = k

\* The last call asked for SCHEDULED on a row of the table, through either
\* operation that takes a date.
ScheduleCalled ==
    /\ last.op \in {"updateServiceRequestStatus", "scheduleServiceRequest"}
    /\ last.id \in DOMAIN sr
    /\ last.status = SCHEDULED

\* C11: updateServiceRequestStatus with target SCHEDULED and
\* scheduleServiceRequest accept only a date strictly later than the evaluation
\* time: after a call that succeeded the status is SCHEDULED and the persisted
\* scheduledDate is the date supplied, later than Now; a call that failed left
\* the status as it was read.
C11_ScheduledDateInFuture ==
    /\ (ScheduleCalled /\ last.result = OK) =>
            /\ sr[last.id].status = SCHEDULED
            /\ sr[last.id].scheduledDate # None
            /\ sr[last.id].scheduledDate[1] > Now
    /\ (ScheduleCalled /\ last.result # OK) =>
            sr[last.id].status = last.fromStatus

\* C12: on the edge SCHEDULED -> IN_PROGRESS of updateServiceRequestStatus a
\* request whose type is not INSTALLATION is rejected unless an image is
\* supplied, and a request of type INSTALLATION is accepted without images:
\* for the call made, and, between calls, for every user and all evidence on
\* every SCHEDULED row.
C12_BeforeImageRule ==
    /\ (/\ UpdateCalled
        /\ last.fromStatus = SCHEDULED
        /\ last.status = IN_PROGRESS
        /\ last.result = OK
        /\ sr[last.id].type # INSTALLATION) => sr[last.id].beforeImages # None
    /\ last = NoCall =>
        \A id \in DOMAIN sr, user \in ActingUsers, data \in UpdateData :
            (sr[id].status = SCHEDULED /\ ~HasImages(data.images)) =>
                LET result == updateServiceRequestStatusCheck(
                                  sr[id], IN_PROGRESS, user, data)
                IN  IF sr[id].type = INSTALLATION
                    THEN result = OK
                    ELSE result = BAD_REQUEST

\* A franchiseId no row of franchises has.
UnresolvedFranchise == "fX"

\* The users the specification lets assign an agent to the row: an ADMIN, or
\* the FRANCHISE_OWNER who owns the franchise the row names.
MayAssign(user, row) ==
    \/ user.role = "ADMIN"
    \/ /\ user.role = "FRANCHISE_OWNER"
       /\ row.franchiseId \in FranchiseIds
       /\ franchiseOwner[row.franchiseId] = user.userId

\* C13: assignServiceAgent succeeds only for an ADMIN or for the
\* FRANCHISE_OWNER who owns the request's franchise; for every other user the
\* call fails FORBIDDEN and leaves assignedToId and status of the request as
\* they were, also for a franchise owner when the franchise of the request
\* does not resolve.
C13_AssignPermission ==
    [][\A id \in DOMAIN sr, assignedToId \in AssigneeInputs, user \in ActingUsers :
          /\ (/\ last'.op = "assignServiceAgent"
              /\ id = last'.id
              /\ assignServiceAgent(id, assignedToId, user)) =>
                \/ MayAssign(user, sr[id])
                \/ /\ last'.result = FORBIDDEN
                   /\ sr'[id].assignedToId = sr[id].assignedToId
                   /\ sr'[id].status = sr[id].status
          /\ user.role = FRANCHISE_OWNER =>
                assignServiceAgentCheck(
                    [sr[id] EXCEPT !.franchiseId = UnresolvedFranchise],
                    assignedToId, user) = FORBIDDEN]_vars

\* A call of assignServiceAgent on a request without an agent was refused, and
\* the request has its status and no agent still.
C13_Witness ==
    /\ last.op = "assignServiceAgent"
    /\ last.id \in DOMAIN sr
    /\ last.result = FORBIDDEN
    /\ sr[last.id].status = last.fromStatus
    /\ sr[last.id].assignedToId = NULL

\* The users the specification lets schedule the row: an ADMIN, the
\* SERVICE_AGENT the row is assigned to, or the FRANCHISE_OWNER who owns the
\* franchise the row names.
MaySchedule(user, row) ==
    \/ user.role = "ADMIN"
    \/ user.role = "SERVICE_AGENT" /\ row.assignedToId = user.userId
    \/ /\ user.role = "FRANCHISE_OWNER"
       /\ row.franchiseId \in FranchiseIds
       /\ franchiseOwner[row.franchiseId] = user.userId

\* C14: scheduleServiceRequest succeeds only for an ADMIN, the assigned
\* SERVICE_AGENT or the owning FRANCHISE_OWNER; for every other user the call
\* fails FORBIDDEN, whatever the date (the date is not looked at first), and
\* the request is unchanged.
C14_SchedulePermission ==
    [][last'.op = "scheduleServiceRequest" =>
       \A id \in DOMAIN sr, scheduledDate \in ScheduleDates, user \in ActingUsers :
          (/\ id = last'.id
           /\ scheduleServiceRequest(id, scheduledDate, user)) =>
              \/ MaySchedule(user, sr[id])
              \/ /\ last'.result = FORBIDDEN
                 /\ sr' = sr]_vars

\* A call of scheduleServiceRequest on a request assigned to ag1 was refused,
\* and the request keeps its status.
C14_Witness ==
    /\ last.op = "scheduleServiceRequest"
    /\ last.id \in DOMAIN sr
    /\ last.result = FORBIDDEN
    /\ sr[last.id].assignedToId = "ag1"
    /\ sr[last.id].status = last.fromStatus

\* The positions of logged that hold an entry of the given entity type.
EntriesOf(entity) == {k \in DOMAIN logged : logged[k].entity = entity}

C16_OneInstallationRequestPerLink ==
    \A i \in InstallationIds :
        Cardinality({id \in DOMAIN sr :
                        /\ sr[id].installationRequestId = i
                        /\ sr[id].type = "installation"}) <= 1

\* The last call was a createInstallationServiceRequest that found no row and
\* inserted one.
InstallationInserted ==
    /\ last.op = "createInstallationServiceRequest"
    /\ last.result = OK
    /\ last.fromStatus = NULL

\* C17: the row createInstallationServiceRequest inserts has type
\* INSTALLATION, requiresPayment = true, and status SCHEDULED when an
\* assignedToId was supplied, CREATED otherwise; the row createServiceRequest
\* inserts has status CREATED and no assignedToId.
C17_InsertedRow ==
    /\ InstallationInserted =>
            /\ sr[last.id].type = "installation"
            /\ sr[last.id].requiresPayment = TRUE
            /\ sr[last.id].status =
                   (IF last.agentId # NULL THEN "SCHEDULED" ELSE "CREATED")
    /\ (last.op = "createServiceRequest" /\ last.result = OK) =>
            /\ sr[last.id].status = "CREATED"
            /\ sr[last.id].assignedToId = NULL

\* createInstallationServiceRequest inserted a row for agent ag1 into a table
\* that held a row already.
C17_Witness ==
    /\ InstallationInserted
    /\ last.agentId = "ag1"
    /\ last.id = 2
    /\ sr[last.id].status = SCHEDULED
    /\ sr[last.id].assignedToId = "ag1"

\* C18: no stored service request has both a subscriptionId and an
\* installationRequestId.
C18_OneOriginLink ==
    \A id \in DOMAIN sr :
        sr[id].subscriptionId = NULL \/ sr[id].installationRequestId = NULL

\* C19: createServiceRequest stores no request linked to a subscription or an
\* installation request of another customer than the caller: the subscription
\* and the installation request a stored row names belong to the customer of
\* the row (the caller, for a row createServiceRequest stored).
C19_LinksBelongToCaller ==
    \A id \in DOMAIN sr :
        /\ sr[id].subscriptionId # NULL =>
              subscriptionRow[sr[id].subscriptionId].customerId = sr[id].customerId
        /\ sr[id].installationRequestId # NULL =>
              installationRow[sr[id].installationRequestId].customerId
                  = sr[id].customerId

\* C20: a general request created with images xs reads back, through
\* getServiceRequestById, with images xs in the same order; one created with
\* an empty array or without images reads back with the empty array.
C20_ImageRoundTrip ==
    [][\A user \in CreateUsers, data \in CreateServiceRequestData \cup ImageBodies,
          id \in 1..MaxCreated :
          (/\ last'.op = "createServiceRequest"
           /\ last'.result = OK
           /\ last'.id = id
           /\ data.type = "general"
           /\ createServiceRequest(data, user)) =>
              getServiceRequestById(id)'.images =
                  (IF data.images = None THEN << >> ELSE data.images[1])]_vars

\* A request created with the images b.jpg, a.jpg in this order is in the
\* table, its images stored as text.
C20_Witness ==
    /\ last.op = "createServiceRequest"
    /\ last.result = OK
    /\ sr[last.id].type = GENERAL
    /\ sr[last.id].images = Some(<<"[", "b.jpg", ",", "a.jpg", "]">>)
    /\ getServiceRequestById(last.id).images = <<"b.jpg", "a.jpg">>

\* Caller c runs its update in this step.
Writes(c) == pending[c].pc = "update" /\ pending'[c].pc = "log"

\* C21: of the updateServiceRequestStatus calls that read the same status of
\* a request before any of them writes, at most one persists its change: a
\* call writes only while the status it read is still the persisted one, so
\* every persisted change is an edge of the table from the status persisted
\* before it.
C21_OneWinnerPerRead ==
    [][\A c \in Callers :
          Writes(c) =>
              LET id == pending[c].id
              IN  /\ sr[id].status = pending[c].serviceRequest.status
                  /\ sr'[id].status \in TransitionTable[sr[id].status]]_vars

\* C22: in updateServiceRequestStatus the update of the row comes before the
\* history append: a call appends its entries only after its update ran, and
\* when the append fails the row stays as the update left it and nothing is
\* appended, so the persisted status may be ahead of the history but an entry
\* of a transition is never there without its write.
C22_WriteBeforeLog ==
    [][\A c \in Callers :
          /\ (pending[c].pc # "returned" /\ pending'[c].pc = "returned") =>
                /\ pending[c].wrote
                /\ logged' = updateEntries(pending[c].id, pending[c].serviceRequest,
                                           pending[c].status, pending[c].user)
          /\ (pending'[c].pc = "threw" /\ pending'[c].result = STORE_ERROR
              /\ pending[c].pc # "threw") =>
                /\ pending[c].wrote
                /\ sr' = sr
                /\ logged' = logged /\ historyTail' = historyTail      ]_vars

\* The history append of a call failed after its update: the request has the
\* status the call wrote, and its latest history entry is an older one.
C22_Witness ==
    /\ pending["c1"].pc = "threw"
    /\ pending["c1"].result = STORE_ERROR
    /\ pending["c1"].wrote
    /\ pending["c2"] = Idle
    /\ sr[pending["c1"].id].status = pending["c1"].status
    /\ pending["c1"].id \in DOMAIN historyTail
    /\ historyTail[pending["c1"].id] # sr[pending["c1"].id].status

\* C23: syncInstallationRequestStatus sets the status of the installation
\* request to INSTALLATION_IN_PROGRESS, PAYMENT_PENDING, INSTALLATION_COMPLETED
\* or CANCELLED for the service-request status IN_PROGRESS, PAYMENT_PENDING,
\* COMPLETED or CANCELLED, and for CREATED, ASSIGNED and SCHEDULED it is a
\* no-op and no error: the status stays and no history entry is appended.
C23_SyncMapsOrSkips ==
    [][\A i \in InstallationIds, status \in ServiceRequestStatus,
          user \in ActingUsers, id \in DOMAIN sr \cup {MissingId} :
          (/\ last'.op = "syncInstallationRequestStatus"
           /\ syncInstallationRequestStatus(i, status, user, id)) =>
              IF status \in {"CREATED", "ASSIGNED", "SCHEDULED"}
              THEN /\ last'.result = OK
                   /\ instStatus' = instStatus
                   /\ logged' = << >>
              ELSE instStatus'[i] =
                       (CASE status = "IN_PROGRESS" -> "INSTALLATION_IN_PROGRESS"
                          [] status = "PAYMENT_PENDING" -> "PAYMENT_PENDING"
                          [] status = "COMPLETED" -> "INSTALLATION_COMPLETED"
                          [] status = "CANCELLED" -> "CANCELLED")]_vars

\* C24: a successful updateServiceRequestStatus with a non-empty array of
\* images stores it in beforeImages when the target is IN_PROGRESS and in
\* afterImages for every other target, and leaves the other of the two fields
\* as it was; without images it changes neither field.
C24_ImageFields ==
    [][(last'.op = "updateServiceRequestStatus" /\ last'.result = OK) =>
       \A id \in DOMAIN sr, status \in ServiceRequestStatus,
          user \in UpdateUsers, data \in UpdateCalls :
          (/\ id = last'.id
           /\ status = last'.status
           /\ updateServiceRequestStatus(id, status, user, data)) =>
              LET supplied == data.images # None /\ data.images # Some(<< >>)
                  before == sr[id].beforeImages
                  after == sr[id].afterImages
              IN  IF supplied /\ status = "IN_PROGRESS"
                  THEN /\ parseJsonSafe(sr'[id].beforeImages, << >>) = data.images[1]
                       /\ sr'[id].afterImages = after
                  ELSE IF supplied
                  THEN /\ parseJsonSafe(sr'[id].afterImages, << >>) = data.images[1]
                       /\ sr'[id].beforeImages = before
                  ELSE /\ sr'[id].beforeImages = before
                       /\ sr'[id].afterImages = after]_vars

\* A request that has before-images was completed with images: both fields
\* are filled.
C24_Witness ==
    /\ UpdateCalled
    /\ last.result = OK
    /\ last.status = COMPLETED
    /\ sr[last.id].beforeImages # None
    /\ sr[last.id].afterImages # None

\* C25: a service request whose status is COMPLETED has a non-null
\* completedDate.
C25_CompletedHasDate ==
    \A id \in DOMAIN sr :
        sr[id].status = "COMPLETED" => sr[id].completedDate # None

\* An entry without the name of the user who acted.
Anonymous(entry) == [f \in DOMAIN entry \ {"performedBy"} |-> entry[f]]

\* C26: updateServiceRequestStatus checks no permission: between calls, for
\* every row, target and evidence, two calls that differ in the acting user
\* only are both accepted or both rejected with the same error, write the same
\* fields, and append history entries that differ in performedBy only, which
\* names the user of each.  Every user is compared with the administrator,
\* which compares every two users.
C26_UserBlindUpdate ==
    last = NoCall =>
        \A id \in DOMAIN sr, status \in ServiceRequestStatus,
           u1 \in RaceUsers, u2 \in ActingUsers :
            LET e1 == updateEntries(id, sr[id], status, u1)
                e2 == updateEntries(id, sr[id], status, u2)
            IN  /\ \A data \in UpdateData :
                      updateServiceRequestStatusCheck(sr[id], status, u1, data)
                          = updateServiceRequestStatusCheck(sr[id], status, u2, data)
                /\ Len(e1) = Len(e2)
                /\ \A k \in DOMAIN e1 :
                      /\ Anonymous(e1[k]) = Anonymous(e2[k])
                      /\ e1[k].performedBy = u1.userId
                      /\ e2[k].performedBy = u2.userId

\* A customer's call moved a request to IN_PROGRESS and the entry names the
\* customer.
C26_Witness ==
    /\ UpdateCalled
    /\ last.result = OK
    /\ last.status = IN_PROGRESS
    /\ Len(logged) > 0
    /\ logged[1].performedBy = "cu1"

\* The operations that change an existing request.
TransitionOps ==
    {"updateServiceRequestStatus", "assignServiceAgent", "scheduleServiceRequest"}

\* C27: a call of updateServiceRequestStatus, assignServiceAgent or
\* scheduleServiceRequest that fails with NOT_FOUND, FORBIDDEN or BAD_REQUEST
\* has written no field of a service request or of an installation request
\* and has appended no history entry.
C27_RejectionWritesNothing ==
    [][(/\ last = NoCall
        /\ last'.op \in TransitionOps
        /\ last'.result \in {"NOT_FOUND", "FORBIDDEN", "BAD_REQUEST"}) =>
            /\ sr' = sr
            /\ instStatus' = instStatus
            /\ logged' = << >>
            /\ historyTail' = historyTail]_vars

\* scheduleServiceRequest refused a date that is not in the future, for a
\* permitted user, and the request has the status it had.
C27_Witness ==
    /\ last.op = "scheduleServiceRequest"
    /\ last.id \in DOMAIN sr
    /\ last.result = BAD_REQUEST
    /\ sr[last.id].status = last.fromStatus
    /\ logged = << >>

\* The toStatus of the service-request entry that precedes entry k of a call
\* for the same request: an earlier entry of the call, else the latest entry
\* of the calls before; NULL when the request has no entry yet.
PreviousToStatus(tail, entries, k) ==
    LET earlier == {j \in 1..(k - 1) : /\ entries[j].entity = "service_request"
                                       /\ entries[j].id = entries[k].id}
    IN  IF earlier # {}
        THEN entries[CHOOSE j \in earlier : \A i \in earlier : i <= j].toStatus
        ELSE IF entries[k].id \in DOMAIN tail THEN tail[entries[k].id] ELSE NULL

\* C28: with one call at a time, the service-request history entries of one
\* id form a chain: an entry's fromStatus is the toStatus of the entry before
\* it, and the toStatus of the last entry is the persisted status.
C28_HistoryChain ==
    [][(last = NoCall /\ last' # NoCall) =>
          /\ \A k \in DOMAIN logged' :
                (/\ logged'[k].entity = "service_request"
                 /\ PreviousToStatus(historyTail, logged', k) # NULL) =>
                    logged'[k].fromStatus = PreviousToStatus(historyTail, logged', k)
          /\ \A id \in DOMAIN historyTail' :
                historyTail'[id] = sr'[id].status]_vars

\* The caller is a franchise owner of another franchise than the installation
\* request's, or the assignee is not a service agent.
MustRefuseInstallation(data, user) ==
    /\ data.installationRequestId \in InstallationIds
    /\ createInstallationCheck(data, user) # OK

\* C30: createInstallationServiceRequest by a franchise owner who does not
\* own the installation request's franchise, or with an assignedToId that is
\* not a service agent, fails with FORBIDDEN or BAD_REQUEST and changes no
\* service request and not the installation request's status, whether an
\* INSTALLATION service request of that installation request exists or not.
C30_RefusedInstallationWritesNothing ==
    [][(/\ last = NoCall
        /\ last'.op = "createInstallationServiceRequest") =>
          \A user \in CreateInstallationUsers, data \in CreateInstallationData :
              (/\ MustRefuseInstallation(data, user)
               /\ createInstallationServiceRequest(data, user)) =>
                  /\ last'.result \in {FORBIDDEN, BAD_REQUEST}
                  /\ sr' = sr
                  /\ instStatus' = instStatus]_vars

\* The fields a transition has no business with.
FrameFields ==
    {"requiresPayment", "type", "customerId", "productId", "franchiseId",
     "subscriptionId", "installationRequestId"}

\* C29: updateServiceRequestStatus, assignServiceAgent and
\* scheduleServiceRequest leave requiresPayment, type, customerId, productId,
\* franchiseId, subscriptionId and installationRequestId of every service
\* request as they were, and change no service request but the one whose id
\* was passed.
C29_TransitionFrame ==
    [][(/\ last = NoCall
        /\ last'.op \in TransitionOps) =>
          /\ DOMAIN sr' = DOMAIN sr
          /\ \A id \in DOMAIN sr :
                /\ DOMAIN sr'[id] = DOMAIN sr[id]
                /\ \A f \in FrameFields : sr'[id][f] = sr[id][f]
                /\ id # last'.id => sr'[id] = sr[id]]_vars

\* A transition of the first of two requests went through.
C29_Witness ==
    /\ last.op \in TransitionOps
    /\ last.result = OK
    /\ last.id = 1
    /\ DOMAIN sr = {1, 2}
    /\ sr[1].status = last.status
    /\ sr[1].status # last.fromStatus
    /\ sr[2].status # sr[1].status

\* C31: when createInstallationServiceRequest succeeds, the service request
\* it returns (getServiceRequestById of the id it generated, which is the
\* serviceRequestId its history entry records) is not null and is linked to
\* the installation request given, and that id names a stored service
\* request, whether the call inserted a row or updated an existing one.
C31_InstallationReturnsItsRequest ==
    (/\ last.op = "createInstallationServiceRequest"
     /\ last.result = OK) =>
        LET serviceRequestId == logged[1].id
            returned == getServiceRequestById(serviceRequestId)
        IN  \* a stored request, for which getServiceRequestById is not null
            /\ serviceRequestId \in DOMAIN sr
            /\ returned.installationRequestId = logged[1].link

\* The statuses of a request carried through without payment, after CREATED.
Lifecycle == <<ASSIGNED, SCHEDULED, IN_PROGRESS, COMPLETED>>

\* Calls of updateServiceRequestStatus, one per status of the path and each
\* with some evidence, all go through, starting on the row given: a call
\* passes the validations and the next one finds the row as the call's
\* update left it.
RECURSIVE UpdatesDrive(_, _)
UpdatesDrive(row, path) ==
    IF path = << >> THEN TRUE
    ELSE \E user \in UpdateUsers, data \in UpdateData :
            /\ updateServiceRequestStatusCheck(row, Head(path), user, data) = OK
            /\ UpdatesDrive(SetColumns(row, updateData(Head(path), data)),
                            Tail(path))

\* C32: from a request createServiceRequest has just stored (status CREATED,
\* no assignedToId, requiresPayment false) some sequence of
\* updateServiceRequestStatus calls alone, with suitable evidence, takes it
\* through ASSIGNED, SCHEDULED, IN_PROGRESS to COMPLETED.
C32_LifecycleByUpdatesAlone ==
    (/\ last.op = "createServiceRequest"
     /\ last.result = OK
     /\ sr[last.id].status = CREATED
     /\ sr[last.id].assignedToId = NULL
     /\ ~sr[last.id].requiresPayment) =>
        UpdatesDrive(sr[last.id], Lifecycle)

====
